---- MODULE Spec2Model ----
(***************************************************************************)
(* convert_to_text.py: batch conversion of OpenDocument files (.odt/.ods)  *)
(* to plain text.                                                          *)
(*                                                                         *)
(* Python strings are modelled as sequences of one-character strings, so   *)
(* that strip/rstrip/join act on characters as they do in the program.     *)
(* A document file is a record [name, fault, doc]: `doc` is the element    *)
(* tree that content.xml parses to, `fault` says whether the archive can   *)
(* be read, the markup parsed and the output written.                      *)
(***************************************************************************)
EXTENDS Integers, Sequences, FiniteSets, TLC

\* ------------------------------------------------------------------ bounds
MaxEls == 4
\* elements under office:text in a generated text document
MaxCells == 2
\* table-cell elements in a generated row
MaxRows == 2
\* table-row elements in a generated sheet
MaxRepeat == 2
\* largest repeat count written in a generated attribute
MaxFiles == 2
\* .odt/.ods files in a generated input directory
MaxRoom == 0
\* characters that fit on the output device when it runs out of space
MaxRuns == 2
\* invocations of main on the same directories

\* ------------------------------------------------------- string primitives
Whitespace ==
  {" ", "\t", "\n"}

RECURSIVE lstrip(_)
lstrip(s) ==
  IF s = <<>> THEN s
  ELSE IF Head(s) \in Whitespace THEN lstrip(Tail(s)) ELSE s

RECURSIVE rstrip(_)
rstrip(s) ==
  IF s = <<>> THEN s
  ELSE IF s[Len(s)] \in Whitespace THEN rstrip(SubSeq(s, 1, Len(s) - 1)) ELSE s

strip(s) ==
  rstrip(lstrip(s))

RECURSIVE join(_, _)
join(sep, parts) ==
  IF parts = <<>> THEN <<>>
  ELSE IF Len(parts) = 1 THEN parts[1]
  ELSE parts[1] \o sep \o join(sep, Tail(parts))

\* ------------------------------------------------- results and exceptions
Return(v) ==
  [ok |-> TRUE, val |-> v, err |-> "none"]

Raise(e) ==
  [ok |-> FALSE, val |-> <<>>, err |-> e]

\* the zip container opens and holds content.xml, unless the file is damaged
read_content_xml(p) ==
  IF p.fault = "archive" THEN Raise("BadZipFile") ELSE Return(p.doc)

\* ET.fromstring: a ParseError for markup that is not well formed
parse_xml(p) ==
  IF p.fault = "parse" THEN Raise("ParseError") ELSE Return(p.doc)

\* ------------------------------------------------------------ odt_to_text
ParagraphTags ==
  {"text:p", "text:h"}

\* lines 56-62: the stripped, non-empty text of every paragraph and heading
RECURSIVE ExtractLines(_)
ExtractLines(els) ==
  IF els = <<>> THEN <<>>
  ELSE LET el == Head(els)
           s == strip(el.text)
       IN (IF el.tag \in ParagraphTags /\ s # <<>> THEN <<s>> ELSE <<>>)
            \o ExtractLines(Tail(els))

NoPrev ==
  [none |-> TRUE, line |-> <<>>]

SomePrev(line) ==
  [none |-> FALSE, line |-> line]

\* line 68: the test that drops a line
SameAsPrev(line, prev) ==
  ~prev.none /\ line = prev.line

\* a de-duplication that drops every repetition of a line, adjacent or not
RECURSIVE DedupeAll(_, _)
DedupeAll(lines, prev) ==
  IF lines = <<>> THEN <<>>
  ELSE <<Head(lines)>>
         \o DedupeAll(SelectSeq(Tail(lines), LAMBDA l : l # Head(lines)), prev)

\* lines 65-71: the de-duplication loop, `prev` being the last line kept
RECURSIVE Dedupe(_, _)
Dedupe(lines, prev) ==
  IF lines = <<>> THEN <<>>
  ELSE IF SameAsPrev(Head(lines), prev) THEN Dedupe(Tail(lines), prev)
  ELSE <<Head(lines)>> \o Dedupe(Tail(lines), SomePrev(Head(lines)))

\* line 73
OdtRender(cleaned) ==
  strip(join(<<"\n", "\n">>, cleaned)) \o <<"\n">>

\* body.find on a missing body, without the None test
MissingSectionRaises ==
  Raise("AttributeError")

OdtMissingSection ==
  Return(<<>>)

odt_to_text(p) ==
  LET xml == read_content_xml(p)
      root == parse_xml(p)
  IN IF ~xml.ok THEN xml
     ELSE IF ~root.ok THEN root
     ELSE IF ~root.val.body THEN OdtMissingSection
     ELSE IF ~root.val.hasText THEN OdtMissingSection
     ELSE Return(OdtRender(Dedupe(ExtractLines(root.val.els), NoPrev)))

\* ------------------------------------------------------------ ods_to_text
\* el.attrib.get(qname): the attribute's string, or nothing
Absent ==
  [present |-> FALSE, value |-> <<>>]

Attr(s) ==
  [present |-> TRUE, value |-> s]

DigitChars ==
  {"0", "1", "2", "3", "4", "5", "6", "7", "8", "9"}

DigitVal(c) ==
  CASE c = "0" -> 0 [] c = "1" -> 1 [] c = "2" -> 2 [] c = "3" -> 3
    [] c = "4" -> 4 [] c = "5" -> 5 [] c = "6" -> 6 [] c = "7" -> 7
    [] c = "8" -> 8 [] c = "9" -> 9

RECURSIVE DigitsValue(_, _)
DigitsValue(ds, acc) ==
  IF ds = <<>> THEN acc ELSE DigitsValue(Tail(ds), acc * 10 + DigitVal(Head(ds)))

\* Python's int(str): surrounding whitespace, an optional sign, decimal digits;
\* anything else is a ValueError
int(s) ==
  LET t == strip(s)
      signed == t # <<>> /\ Head(t) \in {"+", "-"}
      ds == IF signed THEN Tail(t) ELSE t
      v == DigitsValue(ds, 0)
  IN IF ds = <<>> \/ \E k \in 1..Len(ds) : ds[k] \notin DigitChars
     THEN Raise("ValueError")
     ELSE Return(IF Head(t) = "-" THEN 0 - v ELSE v)

\* lines 76-80; `attr` is el.attrib.get(qname)
int_attr(attr, default) ==
  IF ~attr.present THEN default
  ELSE LET r == int(attr.value) IN IF r.ok THEN r.val ELSE default

max(a, b) ==
  IF a >= b THEN a ELSE b

\* the repeat count without the floor of 1
row_repeat_raw(row) ==
  int_attr(row.rep, 1)

\* line 101 with the max(1, ...) of line 112
row_repeat(row) ==
  max(1, int_attr(row.rep, 1))

\* line 106 with the max(1, ...) of line 108
col_repeat(cell) ==
  max(1, int_attr(cell.rep, 1))

Times(x, n) ==
  [k \in 1..n |-> x]

RECURSIVE StripEach(_)
StripEach(ps) ==
  IF ps = <<>> THEN <<>> ELSE <<strip(Head(ps))>> \o StripEach(Tail(ps))

\* line 107
cell_text(cell) ==
  strip(join(<<" ">>, StripEach(cell.ps)))

\* a row built without expanding number-columns-repeated
RECURSIVE RowCellsOnce(_)
RowCellsOnce(cells) ==
  IF cells = <<>> THEN <<>>
  ELSE <<cell_text(Head(cells))>> \o RowCellsOnce(Tail(cells))

\* lines 104-109
RECURSIVE RowCells(_)
RowCells(cells) ==
  IF cells = <<>> THEN <<>>
  ELSE Times(cell_text(Head(cells)), col_repeat(Head(cells))) \o RowCells(Tail(cells))

\* line 111
rendered(row) ==
  rstrip(join(<<"\t">>, RowCells(row.cells)))

\* lines 100-113
RECURSIVE RowLines(_)
RowLines(rows) ==
  IF rows = <<>> THEN <<>>
  ELSE Times(rendered(Head(rows)), row_repeat(Head(rows))) \o RowLines(Tail(rows))

\* line 97
sheet_name(table) ==
  IF table.name.present THEN table.name.value ELSE <<"S", "h", "e", "e", "t">>

\* lines 96-115
RECURSIVE OutLines(_)
OutLines(tables) ==
  IF tables = <<>> THEN <<>>
  ELSE <<(<<"#", "#", " ">> \o sheet_name(Head(tables)))>>
         \o RowLines(Head(tables).rows) \o << <<>> >> \o OutLines(Tail(tables))

\* line 117
OdsRender(out_lines) ==
  rstrip(join(<<"\n">>, out_lines)) \o <<"\n">>

OdsMissingSection ==
  Return(<<>>)

ods_to_text(p) ==
  LET xml == read_content_xml(p)
      root == parse_xml(p)
  IN IF ~xml.ok THEN xml
     ELSE IF ~root.ok THEN root
     ELSE IF ~root.val.body THEN OdsMissingSection
     ELSE IF ~root.val.hasSheet THEN OdsMissingSection
     ELSE Return(OdsRender(OutLines(root.val.tables)))

\* ------------------------------------------------------------ path names
Ord(c) ==
  CASE c = "." -> 46 [] c = "B" -> 66 [] c = "a" -> 97 [] c = "b" -> 98
    [] c = "c" -> 99 [] c = "d" -> 100 [] c = "o" -> 111 [] c = "s" -> 115
    [] c = "t" -> 116 [] c = "x" -> 120

\* str.lower, on the characters of the generated names
lower(s) ==
  [k \in 1..Len(s) |-> IF s[k] = "B" THEN "b" ELSE s[k]]

RECURSIVE LexLess(_, _)
LexLess(a, b) ==
  IF b = <<>> THEN FALSE
  ELSE IF a = <<>> THEN TRUE
  ELSE IF Head(a) = Head(b) THEN LexLess(Tail(a), Tail(b))
  ELSE Ord(Head(a)) < Ord(Head(b))

LastDot(name) ==
  LET dots == {k \in 1..Len(name) : name[k] = "."}
  IN IF dots = {} THEN 0 ELSE CHOOSE k \in dots : \A j \in dots : j <= k

\* pathlib: a leading dot and a trailing dot start no suffix
suffix(name) ==
  LET k == LastDot(name)
  IN IF k > 1 /\ k < Len(name) THEN SubSeq(name, k, Len(name)) ELSE <<>>

stem(name) ==
  LET k == LastDot(name)
  IN IF k > 1 /\ k < Len(name) THEN SubSeq(name, 1, k - 1) ELSE name

EndsWith(s, t) ==
  Len(s) >= Len(t) /\ SubSeq(s, Len(s) - Len(t) + 1, Len(s)) = t

\* in_dir.glob("*" + ext)
glob(dir, ext) ==
  {f \in dir : EndsWith(f.name, ext)}

\* sorted(..., key=lambda p: p.name.lower())
RECURSIVE sorted(_)
sorted(S) ==
  IF S = {} THEN <<>>
  ELSE LET m == CHOOSE f \in S :
                  \A g \in S \ {f} : LexLess(lower(f.name), lower(g.name))
       IN <<m>> \o sorted(S \ {m})

\* line 140
enumerate(dir) ==
  sorted(glob(dir, <<".", "o", "d", "t">>) \cup glob(dir, <<".", "o", "d", "s">>))

\* line 150
OutPath(doc) ==
  stem(doc.name) \o <<".", "t", "x", "t">>

\* ------------------------------------------------------------ convert_one
convert_one(doc) ==
  LET ext == lower(suffix(doc.name))
  IN IF ext = <<".", "o", "d", "t">> THEN odt_to_text(doc)
     ELSE IF ext = <<".", "o", "d", "s">> THEN ods_to_text(doc)
     ELSE Raise("ValueError")

\* ------------------------------------------------------------- the output
NoFile ==
  [exists |-> FALSE, data |-> <<>>]

File(data) ==
  [exists |-> TRUE, data |-> data]

\* Path.write_text: open(path, "w") truncates the file, then the text is
\* written and flushed; the open can fail, and the device can fill up after
\* doc.room characters
write_text(dir, path, text, doc) ==
  IF doc.fault = "open" THEN [ok |-> FALSE, dir |-> dir]
  ELSE IF doc.fault = "nospace" /\ Len(text) > doc.room
  THEN [ok |-> FALSE, dir |-> [dir EXCEPT ![path] = File(SubSeq(text, 1, doc.room))]]
  ELSE [ok |-> TRUE, dir |-> [dir EXCEPT ![path] = File(text)]]

\* lines 155-161: the body of the try statement
TryConvert(dir, doc) ==
  LET text == convert_one(doc)
  IN IF ~text.ok THEN [ok |-> FALSE, dir |-> dir]
     ELSE write_text(dir, OutPath(doc), text.val, doc)

\* the skip test with the flag's sense inverted
ShouldSkipInverted(exists, ow) ==
  exists /\ ow

\* the skip test without the flag
ShouldSkipAlways(exists, ow) ==
  exists

\* line 151
ShouldSkip(exists, ow) ==
  exists /\ ~ow

\* a loop that an exception leaves
NextIndexAbort(k, n, raised) ==
  IF raised THEN n + 1 ELSE k + 1

\* the for statement goes on to the next file, whether or not the body raised
NextIndex(k, n, raised) ==
  k + 1

\* an exit status that tolerates one failure
ExitStatusLenient(nfailed) ==
  IF nfailed <= 1 THEN 0 ELSE 2

\* line 164
ExitStatus(nfailed) ==
  IF nfailed = 0 THEN 0 ELSE 2

\* ------------------------------------------------------------------ state
VARIABLES
  in_dir,     \* the files of the input directory, [name, fault, room, doc]
  out_dir,    \* the output directory: path -> NoFile or File(data)
  overwrite,  \* args.overwrite
  files,      \* main's sorted list of candidates
  pos,        \* position of the for loop in files
  converted, skipped, failed,
  status,     \* main's return value
  pc,         \* "start", "loop", "done" in main; "call", "odt_returned",
              \* "ods_returned" around an extractor
  run,        \* which invocation of main this is
  log,        \* history: one entry per loop iteration of this run
  out0,       \* history: out_dir when this run started
  prev,       \* history: how the previous run ended
  given,      \* the file an extractor is called on
  ret         \* what the extractor returned or raised

vars ==
  <<in_dir, out_dir, overwrite, files, pos, converted, skipped, failed, status,
    pc, run, log, out0, prev, given, ret>>

\* ------------------------------------------------------- generated inputs
SeqsUpTo(S, n) ==
  UNION {[1..k -> S] : k \in 0..n}

El(tag, text) ==
  [tag |-> tag, text |-> text]

Cell(rep, ps) ==
  [rep |-> rep, ps |-> ps]

Row(rep, cells) ==
  [rep |-> rep, cells |-> cells]

Table(name, rows) ==
  [name |-> name, rows |-> rows]

NoBodyDoc ==
  [body |-> FALSE, hasText |-> FALSE, els |-> <<>>, hasSheet |-> FALSE, tables |-> <<>>]

BodyOnlyDoc ==
  [body |-> TRUE, hasText |-> FALSE, els |-> <<>>, hasSheet |-> FALSE, tables |-> <<>>]

TextDoc(els) ==
  [body |-> TRUE, hasText |-> TRUE, els |-> els, hasSheet |-> FALSE, tables |-> <<>>]

SheetDoc(tables) ==
  [body |-> TRUE, hasText |-> FALSE, els |-> <<>>, hasSheet |-> TRUE, tables |-> tables]

Hello ==
  <<"H", "e", "l", "l", "o">>

World ==
  <<"W", "o", "r", "l", "d">>

HelloDoc ==
  TextDoc(<<El("text:p", Hello), El("text:p", Hello), El("text:p", World)>>)

DataDoc ==
  SheetDoc(<<Table(Attr(<<"D", "a", "t", "a">>),
                   <<Row(Attr(<<"2">>), <<Cell(Absent, << <<"A">> >>),
                                          Cell(Absent, << <<"B">> >>)>>)>>)>>)

ElemSet ==
  {El("text:p", <<"a">>), El("text:p", <<"b">>), El("text:h", <<"a">>),
   El("text:p", <<" ">>), El("text:span", <<"a">>), El("text:p", <<" ", "a", "\n">>)}

OdtInputs ==
  {NoBodyDoc, BodyOnlyDoc, DataDoc, HelloDoc}
    \cup {TextDoc(els) : els \in SeqsUpTo(ElemSet, MaxEls)}

DigitOf(d) ==
  CHOOSE c \in DigitChars : DigitVal(c) = d

RECURSIVE NatStr(_)
NatStr(n) ==
  IF n < 10 THEN <<DigitOf(n)>> ELSE NatStr(n \div 10) \o <<DigitOf(n % 10)>>

\* the decimal numeral of an integer, as a document writer puts it in an attribute
Decimal(n) ==
  IF n < 0 THEN <<"-">> \o NatStr(0 - n) ELSE NatStr(n)

Junk ==
  {<<"x">>, <<>>, <<"1", ".", "5">>}

RepN ==
  Attr(Decimal(MaxRepeat))

RepAttrs ==
  {Absent} \cup {Attr(Decimal(n)) : n \in -1..MaxRepeat}
    \cup {Attr(<<" ">> \o Decimal(MaxRepeat) \o <<" ">>), Attr(<<"+">> \o Decimal(MaxRepeat))}
    \cup {Attr(j) : j \in Junk}

CellSet ==
  {Cell(RepN, << <<"A">> >>), Cell(Absent, <<>>)}

RowSet ==
  {Row(r, c) : r \in {Absent, RepN}, c \in SeqsUpTo(CellSet, MaxCells)}

MainSheets ==
  {Table(Attr(<<"D">>), rows) : rows \in SeqsUpTo(RowSet, MaxRows)}

SideSheets ==
  {Table(Absent, <<>>),
   Table(Attr(<<"T">>), <<Row(Absent, <<Cell(Absent, << <<"A">> >>)>>)>>)}

\* the sheets that stand next to another sheet: at most one row
PairedSheets ==
  {s \in MainSheets : Len(s.rows) <= 1}

GridDocs ==
  {<<>>} \cup {<<s>> : s \in MainSheets}
    \cup {<<s, t>> : s \in PairedSheets, t \in SideSheets}
    \cup {<<t, s>> : s \in PairedSheets, t \in SideSheets}

AttrDocs ==
  {<<Table(Attr(<<"D">>), <<Row(r, <<Cell(c, << <<"A">>, <<" ", "B">> >>)>>)>>)>> :
     r \in RepAttrs, c \in RepAttrs}

OdsInputs ==
  {NoBodyDoc, BodyOnlyDoc, HelloDoc, DataDoc}
    \cup {SheetDoc(t) : t \in GridDocs \cup AttrDocs}

FileOf(name, fault, room, doc) ==
  [name |-> name, fault |-> fault, room |-> room, doc |-> doc]

\* names a directory may hold; c.txt is never a candidate
CandidateNames ==
  {<<"a", ".", "o", "d", "s">>, <<"a", ".", "o", "d", "t">>,
   <<"B", ".", "o", "d", "t">>, <<".", "o", "d", "t">>}

OtherFile ==
  FileOf(<<"c", ".", "t", "x", "t">>, "ok", 0, NoBodyDoc)

BatchDocs ==
  {HelloDoc, DataDoc}

FaultOptions ==
  {<<"ok", 0>>, <<"archive", 0>>, <<"parse", 0>>, <<"open", 0>>}
    \cup {<<"nospace", r>> : r \in 0..MaxRoom}

\* a sound file holds either document; a faulty one holds the text document
FileOptions ==
  {o \in FaultOptions \X BatchDocs : o[1][1] # "ok" => o[2] = HelloDoc}

Directories ==
  UNION {{{FileOf(n, o[n][1][1], o[n][1][2], o[n][2]) : n \in N} \cup {OtherFile} :
            o \in [N -> FileOptions]} :
         N \in {M \in SUBSET CandidateNames : Cardinality(M) <= MaxFiles}}

OutPaths ==
  {stem(n) \o <<".", "t", "x", "t">> : n \in CandidateNames}

OldText ==
  <<"o", "l", "d">>

EmptyOut ==
  [q \in OutPaths |-> NoFile]

InitialOutputs ==
  {EmptyOut, [EmptyOut EXCEPT ![<<"a", ".", "t", "x", "t">>] = File(OldText)]}

NoRun ==
  [valid |-> FALSE, out_dir |-> EmptyOut, converted |-> 0, skipped |-> 0,
   failed |-> 0, status |-> 0, log |-> <<>>]

Pending ==
  Raise("pending")

\* ------------------------------------------------------------------- main
BatchIdle ==
  /\ in_dir = {} /\ out_dir = EmptyOut /\ overwrite = FALSE /\ files = <<>>
  /\ pos = 0 /\ converted = 0 /\ skipped = 0 /\ failed = 0 /\ status = 0
  /\ run = 0 /\ log = <<>> /\ out0 = EmptyOut /\ prev = NoRun

Init ==
  /\ in_dir \in Directories
  /\ out_dir \in InitialOutputs
  /\ overwrite \in BOOLEAN
  /\ files = <<>> /\ pos = 0
  /\ converted = 0 /\ skipped = 0 /\ failed = 0 /\ status = 0
  /\ pc = "start" /\ run = 1
  /\ log = <<>> /\ out0 = out_dir /\ prev = NoRun
  /\ given = OtherFile /\ ret = Pending

\* lines 136-147: enumerate the candidates; return 0 at once when there are none
Start ==
  /\ pc = "start"
  /\ files' = enumerate(in_dir)
  /\ log' = <<>>
  /\ out0' = out_dir
  /\ IF files' = <<>>
     THEN /\ pc' = "done"
          /\ status' = 0
          /\ UNCHANGED <<pos, converted, skipped, failed>>
     ELSE /\ pc' = "loop"
          /\ pos' = 1
          /\ converted' = 0 /\ skipped' = 0 /\ failed' = 0
          /\ UNCHANGED status
  /\ UNCHANGED <<in_dir, out_dir, overwrite, run, prev, given, ret>>

Entry(doc, outcome, before, after) ==
  [name |-> doc.name, path |-> OutPath(doc), outcome |-> outcome,
   before |-> before, after |-> after]

\* lines 149-161: one iteration of the for loop
LoopBody ==
  /\ pc = "loop"
  /\ pos <= Len(files)
  /\ LET doc == files[pos]
         out_path == OutPath(doc)
         before == out_dir[out_path]
     IN IF ShouldSkip(before.exists, overwrite)
        THEN /\ skipped' = skipped + 1
             /\ pos' = NextIndex(pos, Len(files), FALSE)
             /\ log' = Append(log, Entry(doc, "skipped", before, before))
             /\ UNCHANGED <<out_dir, converted, failed>>
        ELSE LET r == TryConvert(out_dir, doc)
             IN /\ out_dir' = r.dir
                /\ converted' = IF r.ok THEN converted + 1 ELSE converted
                /\ failed' = IF r.ok THEN failed ELSE failed + 1
                /\ pos' = NextIndex(pos, Len(files), ~r.ok)
                /\ log' = Append(log, Entry(doc, IF r.ok THEN "converted" ELSE "failed",
                                            before, r.dir[out_path]))
                /\ UNCHANGED skipped
  /\ UNCHANGED <<in_dir, overwrite, files, status, pc, run, out0, prev, given, ret>>

\* lines 163-164
Finish ==
  /\ pc = "loop"
  /\ pos > Len(files)
  /\ status' = ExitStatus(failed)
  /\ pc' = "done"
  /\ UNCHANGED <<in_dir, out_dir, overwrite, files, pos, converted, skipped, failed,
                 run, log, out0, prev, given, ret>>

\* the program is started again on the same directories with the same arguments
Rerun ==
  /\ pc = "done"
  /\ run < MaxRuns
  /\ prev' = [valid |-> TRUE, out_dir |-> out_dir, converted |-> converted,
              skipped |-> skipped, failed |-> failed, status |-> status, log |-> log]
  /\ run' = run + 1
  /\ pc' = "start"
  /\ UNCHANGED <<in_dir, out_dir, overwrite, files, pos, converted, skipped, failed,
                 status, log, out0, given, ret>>

Next ==
  \/ Start
  \/ LoopBody
  \/ Finish
  \/ Rerun

Spec ==
  Init /\ [][Next]_vars

\* ------------------------------------------------- the extractors, alone
ExtractInputs ==
  OdtInputs \cup OdsInputs

InitExtract ==
  /\ BatchIdle
  /\ pc = "call"
  /\ \E d \in ExtractInputs, f \in {"ok", "archive", "parse"} :
       /\ f # "ok" => d \in {NoBodyDoc, HelloDoc, DataDoc}
       /\ given = FileOf(IF d.hasSheet THEN <<"a", ".", "o", "d", "s">>
                                       ELSE <<"a", ".", "o", "d", "t">>, f, 0, d)
  /\ ret = Pending

CallOdt ==
  /\ pc = "call"
  /\ ret' = odt_to_text(given)
  /\ pc' = "odt_returned"
  /\ UNCHANGED <<in_dir, out_dir, overwrite, files, pos, converted, skipped, failed,
                 status, run, log, out0, prev, given>>

CallOds ==
  /\ pc = "call"
  /\ ret' = ods_to_text(given)
  /\ pc' = "ods_returned"
  /\ UNCHANGED <<in_dir, out_dir, overwrite, files, pos, converted, skipped, failed,
                 status, run, log, out0, prev, given>>

NextExtract ==
  \/ CallOdt
  \/ CallOds

SpecExtract ==
  InitExtract /\ [][NextExtract]_vars

\* ========================================================= properties of main
Outcomes ==
  {"converted", "skipped", "failed"}

Count(o) ==
  Cardinality({k \in 1..Len(log) : log[k].outcome = o})

Candidates ==
  {f \in in_dir : \E e \in {<<".", "o", "d", "t">>, <<".", "o", "d", "s">>} :
                    EndsWith(f.name, e)}

\* C1: a failure while converting one file never aborts the batch: the loop
\* gives every enumerated file, in order, exactly one outcome out of
\* converted / skipped / failed, the three counters count those outcomes, and
\* when main is done their sum is the number of enumerated files.
C1_FailureIsolated ==
  /\ pc \in {"loop", "done"} =>
       /\ \A k \in 1..Len(log) :
            /\ k <= Len(files)
            /\ log[k].name = files[k].name
            /\ log[k].outcome \in Outcomes
       /\ converted = Count("converted")
       /\ skipped = Count("skipped")
       /\ failed = Count("failed")
  /\ pc = "loop" => Len(log) = pos - 1
  /\ pc = "done" =>
       /\ Len(files) = Cardinality(Candidates)
       /\ Len(log) = Len(files)
       /\ converted + skipped + failed = Len(files)

\* a failed file followed by a file that was still converted
C1_Witness ==
  /\ pc = "done"
  /\ Len(log) = 2
  /\ log[1].outcome = "failed"
  /\ log[2].outcome = "converted"

\* C2: main returns 2 exactly when some enumerated file failed, 0 when every
\* file was converted or skipped, and 0 with nothing processed and no counter
\* or output changed when there is no candidate.
C2_ExitStatus ==
  pc = "done" =>
    /\ status \in {0, 2}
    /\ status = 2 <=> \E k \in 1..Len(log) : log[k].outcome = "failed"
    /\ (\A k \in 1..Len(log) : log[k].outcome \in {"converted", "skipped"}) => status = 0
    /\ files = <<>> =>
         /\ status = 0
         /\ log = <<>>
         /\ converted = 0 /\ skipped = 0 /\ failed = 0
         /\ out_dir = out0

\* one file failed, another was converted, and main returned 2
C2_Witness ==
  /\ pc = "done"
  /\ status = 2
  /\ Count("failed") = 1
  /\ Count("converted") = 1

\* C3: without --overwrite, an output that exists when its candidate is
\* reached is left as it was and the candidate is counted skipped; outputs
\* present at the start of the run stay as they were; and in a second run
\* every file the first run converted is skipped, its output unchanged.
C3_SkipPreserves ==
  ~overwrite =>
    /\ \A k \in 1..Len(log) :
         log[k].before.exists =>
           /\ log[k].outcome = "skipped"
           /\ log[k].after = log[k].before
           /\ out_dir[log[k].path] = log[k].before
    /\ \A q \in OutPaths : out0[q].exists => out_dir[q] = out0[q]
    /\ (prev.valid /\ pc = "done") =>
         \A k \in 1..Len(prev.log) :
           prev.log[k].outcome = "converted" =>
             /\ out_dir[prev.log[k].path] = prev.out_dir[prev.log[k].path]
             /\ log[k].name = prev.log[k].name
             /\ log[k].outcome = "skipped"

\* a second run without --overwrite that skipped what the first run wrote
C3_Witness ==
  /\ ~overwrite
  /\ prev.valid
  /\ pc = "done"
  /\ \E k \in 1..Len(prev.log) :
       /\ prev.log[k].outcome = "converted"
       /\ ~prev.log[k].before.exists
       /\ log[k].outcome = "skipped"

\* C4: after a run that starts with an empty output directory and in which no
\* file fails, every enumerated file has an output file of its own, holding
\* the conversion of that file, and there are as many output files as files
\* counted converted.
C4_OneOutputPerInput ==
  (pc = "done" /\ out0 = EmptyOut /\ failed = 0) =>
    /\ \A k \in 1..Len(files) :
         /\ convert_one(files[k]).ok
         /\ out_dir[OutPath(files[k])] = File(convert_one(files[k]).val)
    /\ \A j, k \in 1..Len(files) : j # k => OutPath(files[j]) # OutPath(files[k])
    /\ Cardinality({q \in OutPaths : out_dir[q].exists}) = converted

\* C5: a file that failed leaves its output path absent, or holding exactly
\* what it held before the file was processed.
C5_AllOrNothing ==
  \A k \in 1..Len(log) :
    log[k].outcome = "failed" =>
      (log[k].after.exists => log[k].after = log[k].before)

\* C8: with --overwrite, a second run on unchanged directories ends with every
\* output file as the first run left it, the same three counts and the same
\* status.
C8_OverwriteIdempotent ==
  (overwrite /\ prev.valid /\ pc = "done") =>
    /\ out_dir = prev.out_dir
    /\ converted = prev.converted
    /\ skipped = prev.skipped
    /\ failed = prev.failed
    /\ status = prev.status

\* a second run with --overwrite that converted a file again, over an output
\* directory that held an older output before the first run
C8_Witness ==
  /\ overwrite
  /\ prev.valid
  /\ pc = "done"
  /\ converted >= 1
  /\ failed >= 1
  /\ \E k \in 1..Len(prev.log) :
       prev.log[k].before = File(OldText) /\ prev.log[k].outcome = "converted"

\* ------------------------------------------ properties of the extractors
\* the first line of every maximal run of equal consecutive lines
RunStarts(lines) ==
  {k \in 1..Len(lines) : k = 1 \/ lines[k] # lines[k - 1]}

\* the run starts from position k on, each after the first preceded by a blank line
RECURSIVE RunsText(_, _)
RunsText(lines, k) ==
  IF k > Len(lines) THEN <<>>
  ELSE (IF k \in RunStarts(lines)
        THEN (IF k = 1 THEN <<>> ELSE <<"\n", "\n">>) \o lines[k]
        ELSE <<>>) \o RunsText(lines, k + 1)

\* C7: odt_to_text returns the extracted non-empty lines, in source order, with
\* each maximal run of equal consecutive lines replaced by one line (so
\* non-adjacent duplicates stay), one blank line between lines and a single
\* newline at the end; Hello, Hello, World gives "Hello\n\nWorld\n".
C7_AdjacentDedupe ==
  (pc = "odt_returned" /\ given.fault = "ok" /\ given.doc.body /\ given.doc.hasText) =>
    /\ ret.ok
    /\ ret.val = RunsText(ExtractLines(given.doc.els), 1) \o <<"\n">>
    /\ given.doc = HelloDoc =>
         ret.val = Hello \o <<"\n", "\n">> \o World \o <<"\n">>

\* lines a, a, b, a: the adjacent pair collapsed, the later a kept
C7_Witness ==
  /\ pc = "odt_returned"
  /\ given.fault = "ok"
  /\ ExtractLines(given.doc.els) = << <<"a">>, <<"a">>, <<"b">>, <<"a">> >>
  /\ ret.val = <<"a", "\n", "\n", "b", "\n", "\n", "a", "\n">>

\* a well-formed tree with nothing for odt_to_text to extract
OdtEmptyInput(doc) ==
  \/ ~doc.body
  \/ ~doc.hasText
  \/ \A k \in 1..Len(doc.els) : doc.els[k].tag \notin {"text:p", "text:h"}

\* a well-formed tree with nothing for ods_to_text to extract
OdsEmptyInput(doc) ==
  \/ ~doc.body
  \/ ~doc.hasSheet
  \/ doc.tables = <<>>

\* C9: on a well-formed tree without a body, without the text / spreadsheet
\* section, or with a section holding no paragraph or heading (odt_to_text)
\* or no sheet (ods_to_text), the extractor raises nothing and returns the
\* empty string or a single newline.
C9_EmptyInput ==
  /\ (pc = "odt_returned" /\ given.fault = "ok" /\ OdtEmptyInput(given.doc)) =>
       ret.ok /\ ret.val \in {<<>>, <<"\n">>}
  /\ (pc = "ods_returned" /\ given.fault = "ok" /\ OdsEmptyInput(given.doc)) =>
       ret.ok /\ ret.val \in {<<>>, <<"\n">>}

\* odt_to_text returned "" for a tree whose body has no text section
C9_Witness ==
  /\ pc = "odt_returned"
  /\ given.fault = "ok"
  /\ given.doc.body
  /\ ~given.doc.hasText
  /\ ret = Return(<<>>)

\* the attribute strings that denote the integer n
Numerals(n) ==
  {Decimal(n), <<" ">> \o Decimal(n) \o <<" ">>}
    \cup (IF n >= 0 THEN {<<"+">> \o Decimal(n)} ELSE {})

\* the repeat count an attribute stands for: 1 when it is missing, is no
\* integer, or is an integer below 1
Intended(attr) ==
  IF ~attr.present \/ attr.value \in Junk THEN 1
  ELSE LET n == CHOOSE m \in -1..MaxRepeat : attr.value \in Numerals(m)
       IN IF n >= 1 THEN n ELSE 1

CountChar(s, c) ==
  Cardinality({k \in 1..Len(s) : s[k] = c})

\* C10: the repeat count ods_to_text uses for a row and for a cell is 1 for a
\* missing attribute, for one that is no integer and for an integer below 1,
\* and n for an integer n >= 1; a row line or cell value is appended that
\* many times, never 0 times.
C10_RepeatAtLeastOne ==
  (pc = "ods_returned" /\ ret.ok) =>
    LET tables == given.doc.tables
    IN /\ \A t \in 1..Len(tables) : \A r \in 1..Len(tables[t].rows) :
            LET row == tables[t].rows[r]
            IN /\ row_repeat(row) = Intended(row.rep)
               /\ row_repeat(row) >= 1
               /\ Len(RowLines(<<row>>)) = Intended(row.rep)
               /\ \A c \in 1..Len(row.cells) :
                    /\ col_repeat(row.cells[c]) = Intended(row.cells[c].rep)
                    /\ col_repeat(row.cells[c]) >= 1
                    /\ Len(RowCells(<<row.cells[c]>>)) = Intended(row.cells[c].rep)
       /\ tables \in AttrDocs =>
            LET n == Intended(tables[1].rows[1].rep)
                m == Intended(tables[1].rows[1].cells[1].rep)
            IN /\ CountChar(ret.val, "\n") = 1 + n
               /\ CountChar(ret.val, "\t") = n * (m - 1)

\* a row with number-rows-repeated="0" and a cell whose count is no integer:
\* each still appears once
C10_Witness ==
  /\ pc = "ods_returned"
  /\ given.doc.tables \in AttrDocs
  /\ given.doc.tables[1].rows[1].rep = Attr(<<"0">>)
  /\ given.doc.tables[1].rows[1].cells[1].rep = Attr(<<"x">>)
  /\ ret.val = <<"#", "#", " ", "D", "\n", "A", " ", "B", "\n">>

\* str.split on a one-character separator
RECURSIVE Split(_, _)
Split(s, c) ==
  LET ks == {k \in 1..Len(s) : s[k] = c}
  IN IF ks = {} THEN <<s>>
     ELSE LET k == CHOOSE x \in ks : \A y \in ks : x <= y
          IN <<SubSeq(s, 1, k - 1)>> \o Split(SubSeq(s, k + 1, Len(s)), c)

\* the lines of the returned text, without its final newline
ResultLines ==
  Split(SubSeq(ret.val, 1, Len(ret.val) - 1), "\n")

RECURSIVE DropTrailingEmpty(_)
DropTrailingEmpty(vs) ==
  IF vs = <<>> THEN vs
  ELSE IF vs[Len(vs)] = <<>> THEN DropTrailingEmpty(SubSeq(vs, 1, Len(vs) - 1)) ELSE vs

RECURSIVE SumTo(_, _)
SumTo(f, n) ==
  IF n <= 0 THEN 0 ELSE f[n] + SumTo(f, n - 1)

\* the values a row stands for: each cell's text, as often as its repeat count
RECURSIVE ExpectedValues(_)
ExpectedValues(cells) ==
  IF cells = <<>> THEN <<>>
  ELSE [k \in 1..Intended(Head(cells).rep) |-> cell_text(Head(cells))]
         \o ExpectedValues(Tail(cells))

\* the lines the rows before row r of a sheet stand for
RowsBefore(rows, r) ==
  SumTo([k \in 1..Len(rows) |-> Intended(rows[k].rep)], r - 1)

\* the lines before sheet t: per earlier sheet its heading, its rows, a blank line
LinesBefore(tables, t) ==
  SumTo([k \in 1..Len(tables) |-> 2 + RowsBefore(tables[k].rows, Len(tables[k].rows) + 1)],
        t - 1)

\* the line number of the j-th copy of row r of sheet t
LineOf(tables, t, r, j) ==
  LinesBefore(tables, t) + 1 + RowsBefore(tables[t].rows, r) + j

\* C6 as claimed: every row with repeat count N is N lines of the returned
\* text, each holding, tab-separated, every cell's text as often as the cell's
\* column-repeat count, whatever the position and the text (the empty text too).
C6_Materialized ==
  (pc = "ods_returned" /\ ret.ok /\ given.doc.body /\ given.doc.hasSheet) =>
    LET tables == given.doc.tables
    IN \A t \in 1..Len(tables) : \A r \in 1..Len(tables[t].rows) :
         LET row == tables[t].rows[r]
             vs == ExpectedValues(row.cells)
         IN \A j \in 1..Intended(row.rep) :
              LET ln == LineOf(tables, t, r, j)
              IN /\ ln <= Len(ResultLines)
                 /\ Split(ResultLines[ln], "\t") = (IF vs = <<>> THEN << <<>> >> ELSE vs)

\* C6, amended: every row with repeat count N is N lines of the returned text,
\* each holding, tab-separated, every cell's text as often as the cell's
\* column-repeat count, except that the empty values at the end of a row are
\* dropped (no line ends in a tab) and the empty lines at the end of the text
\* are dropped.
C6_MaterializedTrimmed ==
  (pc = "ods_returned" /\ ret.ok /\ given.doc.body /\ given.doc.hasSheet) =>
    LET tables == given.doc.tables
    IN \A t \in 1..Len(tables) : \A r \in 1..Len(tables[t].rows) :
         LET row == tables[t].rows[r]
             vs == DropTrailingEmpty(ExpectedValues(row.cells))
         IN \A j \in 1..Intended(row.rep) :
              LET ln == LineOf(tables, t, r, j)
              IN IF ln <= Len(ResultLines)
                 THEN /\ DropTrailingEmpty(Split(ResultLines[ln], "\t")) = vs
                      /\ ResultLines[ln] = <<>>
                           \/ ResultLines[ln][Len(ResultLines[ln])] # "\t"
                 ELSE vs = <<>>

\* a repeated row whose repeated cell is followed by an empty cell, in a sheet
\* that another sheet follows: both copies of the line are there, without the
\* trailing empty value
C6_Witness ==
  /\ pc = "ods_returned"
  /\ ret.ok
  /\ Len(given.doc.tables) = 2
  /\ LET rows == given.doc.tables[1].rows
     IN /\ Len(rows) >= 1
        /\ rows[1] = Row(RepN, <<Cell(RepN, << <<"A">> >>), Cell(Absent, <<>>)>>)
        /\ \A j \in 1..MaxRepeat :
             /\ 1 + j <= Len(ResultLines)
             /\ Split(ResultLines[1 + j], "\t") = [k \in 1..MaxRepeat |-> <<"A">>]

====
